---- MODULE Spec2Model ----
(***************************************************************************)
(* A model of the ><> interpreter of package fish (src/fish/fish.go):     *)
(* the CodeBox (grid, pointer, direction, string mode, stack of stacks),  *)
(* the Stack type with its Go slice S, and the background input reader.   *)
(*                                                                         *)
(* Go slices are modelled as they are: a slice is a window (arr, off,     *)
(* len) on a backing array kept in heap, so that two stacks whose slices  *)
(* share an array see each other's writes, as they do in the program.     *)
(* float64 values are modelled by exact fractions <<n, d>>, d > 0, in     *)
(* lowest terms; only values a float64 holds exactly are admitted.        *)
(***************************************************************************)
EXTENDS Integers, Sequences, FiniteSets, TLC

VARIABLES
    script,     \* the program text handed to NewCodeBox (sequence of characters)
    stack0,     \* the initial stack handed to NewCodeBox
    cB,         \* the CodeBox struct
    heap,       \* backing arrays of the []float64 slices
    stdout,     \* what has been printed on standard output
    stdin,      \* bytes of standard input not yet read
    rbuf,       \* bytes the reader goroutine has read and not yet sent
    reader,     \* the channel `reader`
    status,     \* "init", "running", "done", "loadpanic", "exit1", "crash"
    hist        \* the last cycles: instruction, the state and channel before

vars == <<script, stack0, cB, heap, stdout, stdin, rbuf, reader, status, hist>>

\* ---------------------------------------------------------------- bounds
MaxLen == 7          \* longest stack (elements, all stacks together) explored
MaxDepth == 3        \* most entries of cB.stacks explored
MaxOut == 3          \* most outputs of o / n explored in one run
GrowSlack == 1       \* append may leave up to this many spare cells
MaxVal == 300        \* largest numerator or denominator explored
MaxInput == 1        \* most bytes of standard input explored
MaxQueue == 1        \* the capacity of the channel is scaled down to this

\* ------------------------------------------------------------ directions
Right == 0
Down == 1
Left == 2
Up == 3

\* ------------------------------------------------------------ bytes
ASCII ==
    [c \in {"\n"} |-> 10] @@ [c \in {"\r"} |-> 13] @@
    (" " :> 32) @@ ("!" :> 33) @@ ("\"" :> 34) @@ ("#" :> 35) @@ ("$" :> 36) @@
    ("%" :> 37) @@ ("&" :> 38) @@ ("'" :> 39) @@ ("(" :> 40) @@ (")" :> 41) @@
    ("*" :> 42) @@ ("+" :> 43) @@ ("," :> 44) @@ ("-" :> 45) @@ ("." :> 46) @@
    ("/" :> 47) @@ ("0" :> 48) @@ ("1" :> 49) @@ ("2" :> 50) @@ ("3" :> 51) @@
    ("4" :> 52) @@ ("5" :> 53) @@ ("6" :> 54) @@ ("7" :> 55) @@ ("8" :> 56) @@
    ("9" :> 57) @@ (":" :> 58) @@ (";" :> 59) @@ ("<" :> 60) @@ ("=" :> 61) @@
    (">" :> 62) @@ ("?" :> 63) @@ ("@" :> 64) @@ ("[" :> 91) @@ ("\\" :> 92) @@
    ("]" :> 93) @@ ("^" :> 94) @@ ("_" :> 95) @@ ("a" :> 97) @@ ("b" :> 98) @@
    ("c" :> 99) @@ ("d" :> 100) @@ ("e" :> 101) @@ ("f" :> 102) @@ ("g" :> 103) @@
    ("h" :> 104) @@ ("i" :> 105) @@ ("l" :> 108) @@ ("n" :> 110) @@ ("o" :> 111) @@
    ("p" :> 112) @@ ("r" :> 114) @@ ("v" :> 118) @@ ("x" :> 120) @@ ("z" :> 122) @@
    ("{" :> 123) @@ ("|" :> 124) @@ ("}" :> 125) @@ ("~" :> 126)

Byte(c) == ASCII[c]

\* ------------------------------------------------------------ float64
RECURSIVE GCD(_, _)
GCD(a, b) == IF b = 0 THEN a ELSE GCD(b, a % b)

Abs(i) == IF i < 0 THEN -i ELSE i

\* the fraction n/d (d # 0) in lowest terms with a positive denominator
Frac(n, d) ==
    LET s == IF d < 0 THEN -1 ELSE 1
        g == GCD(Abs(n), Abs(d))
    IN  <<(s * n) \div g, (s * d) \div g>>

Num(i) == <<i, 1>>

RECURSIVE IsPow2(_)
IsPow2(d) == d = 1 \/ (d > 1 /\ d % 2 = 0 /\ IsPow2(d \div 2))

\* whether a float64 holds the fraction exactly (magnitudes here are small)
Exact(v) == IsPow2(v[2])

FAdd(a, b) == Frac(a[1] * b[2] + b[1] * a[2], a[2] * b[2])
FSub(a, b) == Frac(a[1] * b[2] - b[1] * a[2], a[2] * b[2])
FMul(a, b) == Frac(a[1] * b[1], a[2] * b[2])
FDiv(a, b) == Frac(a[1] * b[2], a[2] * b[1])      \* b # 0
FLess(a, b) == a[1] * b[2] < b[1] * a[2]

\* int(v), int64(v): truncation toward zero
Trunc(v) == IF v[1] >= 0 THEN v[1] \div v[2] ELSE -((-v[1]) \div v[2])

\* Go's integer % : the remainder has the sign of the dividend (b # 0)
Rem(a, b) ==
    LET q == IF (a >= 0) = (b >= 0) THEN Abs(a) \div Abs(b) ELSE -(Abs(a) \div Abs(b))
    IN  a - b * q

\* byte(v): the low eight bits of the truncated value
ToByte(v) == Trunc(v) % 256

\* ------------------------------------------------------------ slices
Zeros(n) == [i \in 1..n |-> Num(0)]

\* the elements of slice s, bottom to top
Elems(h, s) == SubSeq(h[s.arr], s.off + 1, s.off + s.len)

Cap(h, s) == Len(h[s.arr]) - s.off

\* append(s, vals...): in place when the capacity allows, else a new array
\* of need + slack cells; the result is [heap, S]
AppendSlice(h, s, vals, slack) ==
    LET need == s.len + Len(vals)
        a == h[s.arr]
    IN  IF need <= Cap(h, s)
        THEN [heap |-> [h EXCEPT ![s.arr] =
                          [i \in 1..Len(a) |->
                              IF i > s.off + s.len /\ i <= s.off + need
                              THEN vals[i - s.off - s.len] ELSE a[i]]],
              S |-> [s EXCEPT !.len = need]]
        ELSE [heap |-> Append(h, Elems(h, s) \o vals \o Zeros(slack)),
              S |-> [arr |-> Len(h) + 1, off |-> 0, len |-> need]]

\* make([]float64, ...) holding vals, with capacity c >= Len(vals)
MakeSlice(h, vals, c) ==
    [heap |-> Append(h, vals \o Zeros(c - Len(vals))),
     S |-> [arr |-> Len(h) + 1, off |-> 0, len |-> Len(vals)]]

RevSeq(q) == [i \in 1..Len(q) |-> q[Len(q) + 1 - i]]

\* ------------------------------------------------------------ Stack
\* A Stack is [S, register, filledRegister], S a slice.  The operators work
\* on a machine record m: the CodeBox fields, the heap, stdout, the channel,
\* this cycle's choices (rnd, slack, early) and three flags: panicked (a
\* panic is unwinding: nothing further executes), ret (Exe returned true)
\* and oob (the cycle left the modelled float64 values).

Panic(m) == [m EXCEPT !.panicked = TRUE]

SetS(m, k, res) == [m EXCEPT !.heap = res.heap, !.stacks[k].S = res.S]

\* s.S[i], i counted from 0 as in the source
At(m, k, i) == m.heap[m.stacks[k].S.arr][m.stacks[k].S.off + i + 1]

\* s.S[i] = v
SetAt(m, k, i, v) ==
    [m EXCEPT !.heap[m.stacks[k].S.arr][m.stacks[k].S.off + i + 1] = v]

StackLen(m, k) == m.stacks[k].S.len

StackPush(m, k, r) ==
    IF m.panicked THEN m
    ELSE SetS(m, k, AppendSlice(m.heap, m.stacks[k].S, <<r>>, m.slack))

\* the value Pop returns
StackPopVal(m, k) ==
    IF StackLen(m, k) > 0 THEN At(m, k, StackLen(m, k) - 1) ELSE Num(0)

\* the state Pop leaves
StackPop(m, k) ==
    IF m.panicked THEN m
    ELSE IF StackLen(m, k) > 0
         THEN [m EXCEPT !.stacks[k].S.len = @ - 1]
         ELSE Panic(m)

\* the register stays marked as filled after its value is pushed back
StackRegisterMut(m, k) ==
    IF m.panicked THEN m
    ELSE IF m.stacks[k].filledRegister
         THEN StackPush(m, k, m.stacks[k].register)
         ELSE LET m1 == StackPop(m, k)
              IN  IF m1.panicked THEN m1
                  ELSE [m1 EXCEPT !.stacks[k].register = StackPopVal(m, k),
                                  !.stacks[k].filledRegister = TRUE]

StackRegister(m, k) ==
    IF m.panicked THEN m
    ELSE IF m.stacks[k].filledRegister
         THEN [StackPush(m, k, m.stacks[k].register)
                  EXCEPT !.stacks[k].filledRegister = FALSE]
         ELSE LET m1 == StackPop(m, k)
              IN  IF m1.panicked THEN m1
                  ELSE [m1 EXCEPT !.stacks[k].register = StackPopVal(m, k),
                                  !.stacks[k].filledRegister = TRUE]

StackExtend(m, k) ==
    IF m.panicked THEN m
    ELSE IF StackLen(m, k) = 0 THEN Panic(m)
         ELSE StackPush(m, k, At(m, k, StackLen(m, k) - 1))

StackReverse(m, k) ==
    IF m.panicked THEN m
    ELSE SetS(m, k, MakeSlice(m.heap, RevSeq(Elems(m.heap, m.stacks[k].S)),
                              StackLen(m, k)))

\* a swap that leaves a stack of fewer than two elements as it is
StackSwapTwoMut(m, k) ==
    IF m.panicked THEN m
    ELSE LET n == StackLen(m, k)
         IN  IF n < 2 THEN m
             ELSE LET x == At(m, k, n - 1)
                  IN  SetAt(SetAt(m, k, n - 1, At(m, k, n - 2)), k, n - 2, x)

StackSwapTwo(m, k) ==
    IF m.panicked THEN m
    ELSE LET n == StackLen(m, k)
         IN  IF n < 2 THEN Panic(m)
             ELSE LET x == At(m, k, n - 1)
                  IN  SetAt(SetAt(m, k, n - 1, At(m, k, n - 2)), k, n - 2, x)

\* the rotation in the other sense: [.., a, b, c] to [.., b, c, a]
StackSwapThreeMut(m, k) ==
    IF m.panicked THEN m
    ELSE LET n == StackLen(m, k)
         IN  IF n < 3 THEN Panic(m)
             ELSE LET a == At(m, k, n - 3)
                      b == At(m, k, n - 2)
                      c == At(m, k, n - 1)
                  IN  SetAt(SetAt(SetAt(m, k, n - 3, b), k, n - 2, c), k, n - 1, a)

\* with two elements the first store is done before the third index panics
StackSwapThree(m, k) ==
    IF m.panicked THEN m
    ELSE LET n == StackLen(m, k)
         IN  IF n < 2 THEN Panic(m)
             ELSE LET x == At(m, k, n - 1)
                      y == At(m, k, n - 2)
                      m1 == SetAt(m, k, n - 1, y)
                  IN  IF n < 3 THEN Panic(m1)
                      ELSE SetAt(SetAt(m1, k, n - 2, At(m, k, n - 3)), k, n - 3, x)

\* the shift in the other sense: the bottom element goes to the top
StackShiftRightMut(m, k) ==
    IF m.panicked THEN m
    ELSE IF StackLen(m, k) = 0 THEN Panic(m)
         ELSE StackPush([m EXCEPT !.stacks[k].S.off = @ + 1,
                                  !.stacks[k].S.len = @ - 1],
                        k, At(m, k, 0))

StackShiftRight(m, k) ==
    IF m.panicked THEN m
    ELSE LET n == StackLen(m, k)
             e == Elems(m.heap, m.stacks[k].S)
         IN  IF n = 0 THEN Panic(m)
             ELSE SetS(m, k, MakeSlice(m.heap, <<e[n]>> \o SubSeq(e, 1, n - 1), n))

StackShiftLeft(m, k) ==
    IF m.panicked THEN m
    ELSE IF StackLen(m, k) = 0 THEN Panic(m)
         ELSE StackPush([m EXCEPT !.stacks[k].S.off = @ + 1,
                                  !.stacks[k].S.len = @ - 1],
                        k, At(m, k, 0))

\* ------------------------------------------------------------ CodeBox
\* cB.stacks[cB.p], counted from 1
Cur(m) == m.p + 1

Push(m, r) == StackPush(m, Cur(m), r)
PopVal(m) == StackPopVal(m, Cur(m))
Pop(m) == StackPop(m, Cur(m))
StackLength(m) == Num(StackLen(m, Cur(m)))
Register(m) == StackRegister(m, Cur(m))
ReverseStack(m) == StackReverse(m, Cur(m))
ExtendStack(m) == StackExtend(m, Cur(m))
CBSwapTwo(m) == StackSwapTwo(m, Cur(m))
CBSwapThree(m) == StackSwapThree(m, Cur(m))
CBShiftRight(m) == StackShiftRight(m, Cur(m))
CBShiftLeft(m) == StackShiftLeft(m, Cur(m))

\* CloseStack without the reversal of compatibility mode
CloseStackMut(m) ==
    IF m.panicked THEN m
    ELSE LET m1 == [m EXCEPT !.p = @ - 1]
         IN  IF m1.p < 0 THEN Panic(m1)
             ELSE SetS(m1, m1.p + 1,
                       AppendSlice(m1.heap, m1.stacks[m1.p + 1].S,
                                   Elems(m1.heap, m1.stacks[m1.p + 2].S), m1.slack))

CloseStack(m) ==
    IF m.panicked THEN m
    ELSE LET m1 == [m EXCEPT !.p = @ - 1]
             m2 == IF m1.compMode THEN StackReverse(m1, m1.p + 2) ELSE m1
         IN  IF m2.p < 0 THEN Panic(m2)
             ELSE SetS(m2, m2.p + 1,
                       AppendSlice(m2.heap, m2.stacks[m2.p + 1].S,
                                   Elems(m2.heap, m2.stacks[m2.p + 2].S), m2.slack))

\* the slot of a closed stack is reused with the parent left as it is
NewStack(m, n) ==
    IF m.panicked THEN m
    ELSE LET m1 == [m EXCEPT !.p = @ + 1]
             par == m.stacks[m.p + 1].S
             lo == par.len - n
             sub == [arr |-> par.arr, off |-> par.off + lo, len |-> n]
             m2 == IF lo < 0 \/ lo > par.len THEN Panic(m1)
                   ELSE IF m1.p = Len(m.stacks)
                   THEN [m1 EXCEPT
                           !.stacks = Append([@ EXCEPT ![m.p + 1].S.len = lo],
                                             [S |-> sub, register |-> Num(0),
                                              filledRegister |-> FALSE])]
                   ELSE [m1 EXCEPT !.stacks[m1.p + 1].S = sub,
                                   !.stacks[m1.p + 1].filledRegister = FALSE]
         IN  IF m2.panicked THEN m2
             ELSE IF m2.compMode THEN StackReverse(m2, m2.p + 1) ELSE m2

Move(m) ==
    IF m.panicked THEN m
    ELSE CASE m.fDir = Right ->
                [m EXCEPT !.fX = IF m.fX + 1 >= m.width THEN 0 ELSE m.fX + 1]
           [] m.fDir = Down ->
                [m EXCEPT !.fY = IF m.fY + 1 >= m.height THEN 0 ELSE m.fY + 1]
           [] m.fDir = Left ->
                [m EXCEPT !.fX = IF m.fX - 1 < 0 THEN m.width - 1 ELSE m.fX - 1]
           [] m.fDir = Up ->
                [m EXCEPT !.fY = IF m.fY - 1 < 0 THEN m.height - 1 ELSE m.fY - 1]

\* ------------------------------------------------------------ Exe
\* one operator per case of the switch that does more than one call

ExeAdd(m) ==
    LET x == PopVal(m)
        m1 == Pop(m)
        y == PopVal(m1)
    IN  Push(Pop(m1), FAdd(x, y))

\* the operands taken in the order they are popped
ExeSubMut(m) ==
    LET x == PopVal(m)
        m1 == Pop(m)
        y == PopVal(m1)
    IN  Push(Pop(m1), FSub(x, y))

ExeSub(m) ==
    LET x == PopVal(m)
        m1 == Pop(m)
        y == PopVal(m1)
    IN  Push(Pop(m1), FSub(y, x))

ExeMul(m) ==
    LET x == PopVal(m)
        m1 == Pop(m)
        y == PopVal(m1)
    IN  Push(Pop(m1), FMul(x, y))

\* y / 0 is an infinity or a NaN, and a quotient that is no binary fraction
\* is rounded: both leave the values modelled here
ExeDiv(m) ==
    LET x == PopVal(m)
        m1 == Pop(m)
        y == PopVal(m1)
        m2 == Pop(m1)
    IN  IF m2.panicked THEN m2
        ELSE IF x[1] = 0 THEN [m2 EXCEPT !.oob = TRUE]
        ELSE IF ~Exact(FDiv(y, x)) THEN [m2 EXCEPT !.oob = TRUE]
        ELSE Push(m2, FDiv(y, x))

\* the integer division by zero panics after both operands are popped
ExeMod(m) ==
    LET x == PopVal(m)
        m1 == Pop(m)
        y == PopVal(m1)
        m2 == Pop(m1)
    IN  IF m2.panicked THEN m2
        ELSE IF Trunc(x) = 0 THEN Panic(m2)
        ELSE Push(m2, Num(Rem(Trunc(y), Trunc(x))))

ExeEq(m) ==
    LET x == PopVal(m)
        m1 == Pop(m)
        y == PopVal(m1)
    IN  Push(Pop(m1), IF x = y THEN Num(1) ELSE Num(0))

ExeGt(m) ==
    LET x == PopVal(m)
        m1 == Pop(m)
        y == PopVal(m1)
    IN  Push(Pop(m1), IF FLess(x, y) THEN Num(1) ELSE Num(0))

ExeLt(m) ==
    LET x == PopVal(m)
        m1 == Pop(m)
        y == PopVal(m1)
    IN  Push(Pop(m1), IF FLess(y, x) THEN Num(1) ELSE Num(0))

\* the skip taken on a non-zero value instead
ExeSkipMut(m) ==
    LET m1 == Pop(m)
    IN  IF m1.panicked THEN m1
        ELSE IF PopVal(m) # Num(0) THEN Move(m1) ELSE m1

ExeSkip(m) ==
    LET m1 == Pop(m)
    IN  IF m1.panicked THEN m1
        ELSE IF PopVal(m) = Num(0) THEN Move(m1) ELSE m1

\* "." with the coordinates taken in the other order
ExeJumpMut(m) ==
    LET m1 == Pop(m)
        m2 == IF m1.panicked THEN m1 ELSE [m1 EXCEPT !.fX = Trunc(PopVal(m))]
        m3 == Pop(m2)
    IN  IF m3.panicked THEN m3 ELSE [m3 EXCEPT !.fY = Trunc(PopVal(m2))]

\* fY is stored before the second Pop is called
ExeJump(m) ==
    LET m1 == Pop(m)
        m2 == IF m1.panicked THEN m1 ELSE [m1 EXCEPT !.fY = Trunc(PopVal(m))]
        m3 == Pop(m2)
    IN  IF m3.panicked THEN m3 ELSE [m3 EXCEPT !.fX = Trunc(PopVal(m2))]

ExeNewStack(m) ==
    LET m1 == Pop(m)
    IN  IF m1.panicked THEN m1 ELSE NewStack(m1, Trunc(PopVal(m)))

InRows(m, y) == y >= 0 /\ y < Len(m.box)
InCols(m, y, x) == x >= 0 /\ x < Len(m.box[y + 1])

\* box[y][x] read with y popped first; Go leaves open whether the row index
\* is checked before the second Pop is called (m.early) or after it
ExeGet(m) ==
    LET y == Trunc(PopVal(m))
        m1 == Pop(m)
        x == Trunc(PopVal(m1))
        m2 == Pop(m1)
    IN  IF m1.panicked THEN m1
        ELSE IF m.early /\ ~InRows(m, y) THEN Panic(m1)
        ELSE IF m2.panicked THEN m2
        ELSE IF ~InRows(m, y) THEN Panic(m2)
        ELSE IF ~InCols(m, y, x) THEN Panic(m2)
        ELSE Push(m2, Num(m.box[y + 1][x + 1]))

\* the two coordinates taken in the other order
ExePutMut(m) ==
    LET x == Trunc(PopVal(m))
        m1 == Pop(m)
        y == Trunc(PopVal(m1))
        m2 == Pop(m1)
        v == PopVal(m2)
        m3 == Pop(m2)
    IN  IF m3.panicked THEN m3
        ELSE IF ~InRows(m, y) THEN Panic(m3)
        ELSE IF ~InCols(m, y, x) THEN Panic(m3)
        ELSE [m3 EXCEPT !.box[y + 1][x + 1] = ToByte(v)]

ExePut(m) ==
    LET y == Trunc(PopVal(m))
        m1 == Pop(m)
        x == Trunc(PopVal(m1))
        m2 == Pop(m1)
        v == PopVal(m2)
        m3 == Pop(m2)
    IN  IF m1.panicked THEN m1
        ELSE IF m.early /\ ~InRows(m, y) THEN Panic(m1)
        ELSE IF m3.panicked THEN m3
        ELSE IF ~InRows(m, y) THEN Panic(m3)
        ELSE IF ~InCols(m, y, x) THEN Panic(m3)
        ELSE [m3 EXCEPT !.box[y + 1][x + 1] = ToByte(v)]

\* the byte is read but stays at the head of the channel
ExeInputMut(m) ==
    IF Len(m.reader) > 0
    THEN Push(m, Num(Head(m.reader)))
    ELSE Push(m, Num(-1))

\* the select with a default case on the channel
ExeInput(m) ==
    IF Len(m.reader) > 0
    THEN Push([m EXCEPT !.reader = Tail(@)], Num(Head(m.reader)))
    ELSE Push(m, Num(-1))

ExeOutChar(m) ==
    LET m1 == Pop(m)
    IN  IF m1.panicked THEN m1
        ELSE [m1 EXCEPT !.out = Append(@, [k |-> "o", v |-> <<ToByte(PopVal(m))>>])]

ExeOutNum(m) ==
    LET m1 == Pop(m)
    IN  IF m1.panicked THEN m1
        ELSE [m1 EXCEPT !.out = Append(@, [k |-> "n", v |-> <<PopVal(m)>>])]

ExeMirror(m, r) ==
    CASE r = Byte("|") ->
           [m EXCEPT !.fDir = IF @ = Right THEN Left ELSE IF @ = Left THEN Right ELSE @]
      [] r = Byte("_") ->
           [m EXCEPT !.fDir = IF @ = Down THEN Up ELSE IF @ = Up THEN Down ELSE @]
      [] r = Byte("#") ->
           [m EXCEPT !.fDir = CASE @ = Right -> Left [] @ = Down -> Up
                                [] @ = Left -> Right [] @ = Up -> Down]
      [] r = Byte("/") ->
           [m EXCEPT !.fDir = CASE @ = Right -> Up [] @ = Down -> Left
                                [] @ = Left -> Down [] @ = Up -> Right]
      [] r = Byte("\\") ->
           [m EXCEPT !.fDir = CASE @ = Right -> Down [] @ = Down -> Right
                                [] @ = Left -> Up [] @ = Up -> Left]

ExeQuote(m, r) ==
    IF m.stringMode = 0 THEN [m EXCEPT !.stringMode = r]
    ELSE IF r = m.stringMode THEN [m EXCEPT !.stringMode = 0]
    ELSE m

\* ";" that moves on before it returns
ExeEndMut(m) == [Move(m) EXCEPT !.ret = TRUE]

ExeEnd(m) == [m EXCEPT !.ret = TRUE]

Exe(m, r) ==
    CASE r = Byte(" ") -> m
      [] r = Byte(";") -> ExeEnd(m)
      [] r = Byte(">") -> [m EXCEPT !.fDir = Right]
      [] r = Byte("v") -> [m EXCEPT !.fDir = Down]
      [] r = Byte("<") -> [m EXCEPT !.fDir = Left]
      [] r = Byte("^") -> [m EXCEPT !.fDir = Up]
      [] r \in {Byte("|"), Byte("_"), Byte("#"), Byte("/"), Byte("\\")} -> ExeMirror(m, r)
      [] r = Byte("x") -> [m EXCEPT !.fDir = m.rnd]
      [] r \in {Byte("\""), Byte("'")} -> ExeQuote(m, r)
      [] r >= Byte("0") /\ r <= Byte("9") -> Push(m, Num(r - Byte("0")))
      [] r >= Byte("a") /\ r <= Byte("f") -> Push(m, Num(r - Byte("a") + 10))
      [] r = Byte("&") -> Register(m)
      [] r = Byte("o") -> ExeOutChar(m)
      [] r = Byte("n") -> ExeOutNum(m)
      [] r = Byte("r") -> ReverseStack(m)
      [] r = Byte("+") -> ExeAdd(m)
      [] r = Byte("-") -> ExeSub(m)
      [] r = Byte("*") -> ExeMul(m)
      [] r = Byte(",") -> ExeDiv(m)
      [] r = Byte("%") -> ExeMod(m)
      [] r = Byte("=") -> ExeEq(m)
      [] r = Byte(")") -> ExeGt(m)
      [] r = Byte("(") -> ExeLt(m)
      [] r = Byte("!") -> Move(m)
      [] r = Byte("?") -> ExeSkip(m)
      [] r = Byte(".") -> ExeJump(m)
      [] r = Byte(":") -> ExtendStack(m)
      [] r = Byte("~") -> Pop(m)
      [] r = Byte("$") -> CBSwapTwo(m)
      [] r = Byte("@") -> CBSwapThree(m)
      [] r = Byte("}") -> CBShiftRight(m)
      [] r = Byte("{") -> CBShiftLeft(m)
      [] r = Byte("]") -> CloseStack(m)
      [] r = Byte("[") -> ExeNewStack(m)
      [] r = Byte("l") -> Push(m, StackLength(m))
      [] r = Byte("g") -> ExeGet(m)
      [] r = Byte("p") -> ExePut(m)
      [] r = Byte("i") -> ExeInput(m)
      [] OTHER -> Panic(m)

\* ------------------------------------------------------------ Swim
\* the byte under the fish, or -1 when there is no such cell
Cell(m) ==
    IF InRows(m, m.fY) THEN (IF InCols(m, m.fY, m.fX) THEN m.box[m.fY + 1][m.fX + 1] ELSE -1)
    ELSE -1

\* every byte is dispatched, in string mode too
SwimBodyMut(m) ==
    LET r == Cell(m)
    IN  IF r = -1 THEN Panic(m)
        ELSE LET e == Exe(m, r)
             IN  IF e.ret THEN e ELSE Move(e)

\* the body of Swim up to its return or its panic
SwimBody(m) ==
    LET r == Cell(m)
    IN  IF r = -1 THEN Panic(m)
        ELSE IF m.stringMode # 0 /\ r # m.stringMode
        THEN Move(Push(m, Num(r)))
        ELSE LET e == Exe(m, r)
             IN  IF e.ret THEN e ELSE Move(e)

\* the deferred function: PrintBox, then the dump of cB.Stack(), which
\* itself panics when cB.p is no index of cB.stacks
Recovered(m) ==
    LET boxed == Append(m.out, [k |-> "box", v |-> <<m.box, m.fX, m.fY>>])
    IN  IF m.p >= 0 /\ m.p < Len(m.stacks)
        THEN [m EXCEPT !.out = boxed \o
                 << [k |-> "Stack:", v |-> Elems(m.heap, m.stacks[m.p + 1].S)],
                    [k |-> "fishy", v |-> <<>>] >>,
                       !.exit = 1]
        ELSE [m EXCEPT !.out = boxed, !.exit = 2]

\* ------------------------------------------------------------ NewCodeBox
NoCR(s) == SelectSeq(s, LAMBDA c : c # "\r")

HasNL(s) == \E i \in 1..Len(s) : s[i] = "\n"

FirstNL(s) == CHOOSE i \in 1..Len(s) : s[i] = "\n" /\ \A j \in 1..(i - 1) : s[j] # "\n"

\* strings.Split(s, "\n")
RECURSIVE Split(_)
Split(s) ==
    IF ~HasNL(s) THEN <<s>>
    ELSE <<SubSeq(s, 1, FirstNL(s) - 1)>> \o Split(SubSeq(s, FirstNL(s) + 1, Len(s)))

longestLineLength(lines) ==
    IF \E i \in 1..Len(lines) : Len(lines[i]) > 0
    THEN CHOOSE l \in {Len(lines[i]) : i \in 1..Len(lines)} :
             \A i \in 1..Len(lines) : Len(lines[i]) <= l
    ELSE 0

\* the rejection the message of the panic speaks of: length 0 only
RejectsMut(s) == Len(NoCR(s)) = 0

\* whether NewCodeBox panics on the script
Rejects(s) == Len(NoCR(s)) = 0 \/ NoCR(s) = <<"\n">>

NewCodeBox(s, stack, compatibilityMode) ==
    LET lines == Split(NoCR(s))
        w == longestLineLength(lines)
    IN  [fX |-> 0, fY |-> 0, fDir |-> Right,
         width |-> w, height |-> Len(lines),
         box |-> [i \in 1..Len(lines) |->
                    [ii \in 1..w |-> IF ii <= Len(lines[i]) THEN Byte(lines[i][ii])
                                     ELSE Byte(" ")]],
         stacks |-> << [S |-> [arr |-> 1, off |-> 0, len |-> Len(stack)],
                        register |-> Num(0), filledRegister |-> FALSE] >>,
         p |-> 0, stringMode |-> 0, compMode |-> compatibilityMode]

\* new(CodeBox)
ZeroCodeBox ==
    [fX |-> 0, fY |-> 0, fDir |-> Right, width |-> 0, height |-> 0, box |-> <<>>,
     stacks |-> <<>>, p |-> 0, stringMode |-> 0, compMode |-> FALSE]

\* ------------------------------------------------------------ state
CBFields == {"fX", "fY", "fDir", "width", "height", "box", "stacks", "p",
             "stringMode", "compMode"}

RECURSIVE SortSet(_)
SortSet(S) ==
    IF S = {} THEN <<>>
    ELSE LET x == CHOOSE y \in S : \A z \in S : y <= z
         IN  <<x>> \o SortSet(S \ {x})

\* the arrays some stack still refers to, renumbered in order
Live(m) == SortSet({m.stacks[k].S.arr : k \in 1..Len(m.stacks)})

Rank(q, a) == CHOOSE i \in 1..Len(q) : q[i] = a

Collected(m) ==
    [m EXCEPT !.heap = [i \in 1..Len(Live(m)) |-> m.heap[Live(m)[i]]],
              !.stacks = [k \in 1..Len(m.stacks) |->
                            [m.stacks[k] EXCEPT !.S.arr = Rank(Live(m), @)]]]

\* what a program can observe of the CodeBox: each stack by its elements
View(cb, h) ==
    [fX |-> cb.fX, fY |-> cb.fY, fDir |-> cb.fDir, box |-> cb.box,
     stringMode |-> cb.stringMode, p |-> cb.p,
     stacks |-> [k \in 1..Len(cb.stacks) |->
                   [S |-> Elems(h, cb.stacks[k].S),
                    register |-> cb.stacks[k].register,
                    filledRegister |-> cb.stacks[k].filledRegister]]]

Machine(rnd, slack, early) ==
    cB @@ [heap |-> heap, out |-> stdout, reader |-> reader,
           rnd |-> rnd, slack |-> slack, early |-> early,
           panicked |-> FALSE, ret |-> FALSE, oob |-> FALSE, exit |-> 0]

AllValues(m) ==
    UNION {{m.stacks[k].register} \cup
           {Elems(m.heap, m.stacks[k].S)[i] : i \in 1..m.stacks[k].S.len}
           : k \in 1..Len(m.stacks)}

TotalLen(m) ==
    LET RECURSIVE Sum(_)
        Sum(k) == IF k = 0 THEN 0 ELSE m.stacks[k].S.len + Sum(k - 1)
    IN  Sum(Len(m.stacks))

\* the part of the state space explored
Bounded(m) ==
    /\ ~m.oob
    /\ TotalLen(m) <= MaxLen
    /\ Len(m.stacks) <= MaxDepth
    /\ Len(m.out) <= MaxOut
    /\ \A v \in AllValues(m) : Abs(v[1]) <= MaxVal /\ v[2] <= MaxVal

\* ------------------------------------------------------------ inputs
\* stack instructions: `1234@;`  `12@;`  `1@`  `12$;`  `1$`  `123r;`
\* `1234};`  `1234{;`  `}`  `{`  `1}{;`  `5&&;`  `&`  `12&3&;`  `1:;`  `:`
\* `1~;`  `~`  `123l;`  `123{};`  `123}{;`  `12&&;`  `$`  `@`
ScriptsStackInstructions ==
    { <<"1", "2", "3", "4", "@", ";">>,
      <<"1", "2", "@", ";">>,
      <<"1", "@">>,
      <<"1", "2", "$", ";">>,
      <<"1", "$">>,
      <<"1", "2", "3", "r", ";">>,
      <<"1", "2", "3", "4", "}", ";">>,
      <<"1", "2", "3", "4", "{", ";">>,
      <<"}">>,
      <<"{">>,
      <<"1", "}", "{", ";">>,
      <<"5", "&", "&", ";">>,
      <<"&">>,
      <<"1", "2", "&", "3", "&", ";">>,
      <<"1", ":", ";">>,
      <<":">>,
      <<"1", "~", ";">>,
      <<"~">>,
      <<"1", "2", "3", "l", ";">>,
      <<"1", "2", "3", "{", "}", ";">>,
      <<"1", "2", "3", "}", "{", ";">>,
      <<"1", "2", "&", "&", ";">>,
      <<"$">>,
      <<"@">> }

\* arithmetic and comparison: `52-;`  `82,;`  `72,2%;`  `03-2%;`  `52);`
\* `25);`  `52(;`  `25(;`  `55=;`  `34+;`  `34*;`  `5-;`  `50,`  `13,`  `50%`
\* `12,1(;`  `1+;`  `*`  `1=`  `(`  `1)`  `,`  `1%`  `+`  `-`  `%`  `=`  `)`
ScriptsArithmeticComparison ==
    { <<"5", "2", "-", ";">>,
      <<"8", "2", ",", ";">>,
      <<"7", "2", ",", "2", "%", ";">>,
      <<"0", "3", "-", "2", "%", ";">>,
      <<"5", "2", ")", ";">>,
      <<"2", "5", ")", ";">>,
      <<"5", "2", "(", ";">>,
      <<"2", "5", "(", ";">>,
      <<"5", "5", "=", ";">>,
      <<"3", "4", "+", ";">>,
      <<"3", "4", "*", ";">>,
      <<"5", "-", ";">>,
      <<"5", "0", ",">>,
      <<"1", "3", ",">>,
      <<"5", "0", "%">>,
      <<"1", "2", ",", "1", "(", ";">>,
      <<"1", "+", ";">>,
      <<"*">>,
      <<"1", "=">>,
      <<"(">>,
      <<"1", ")">>,
      <<",">>,
      <<"1", "%">>,
      <<"+">>,
      <<"-">>,
      <<"%">>,
      <<"=">>,
      <<")">> }

\* stack of stacks: `123452[];`  `0[]2[];`  `0[]2[$];`  `1231[1[]];`  `5[`
\* `];`  `01-[`  `0[]]`  `12[&]1[&;`  `122[r]r;`  `1[2[3[`  `1[]1[]2[];`
ScriptsStackStacks ==
    { <<"1", "2", "3", "4", "5", "2", "[", "]", ";">>,
      <<"0", "[", "]", "2", "[", "]", ";">>,
      <<"0", "[", "]", "2", "[", "$", "]", ";">>,
      <<"1", "2", "3", "1", "[", "1", "[", "]", "]", ";">>,
      <<"5", "[">>,
      <<"]", ";">>,
      <<"0", "1", "-", "[">>,
      <<"0", "[", "]", "]">>,
      <<"1", "2", "[", "&", "]", "1", "[", "&", ";">>,
      <<"1", "2", "2", "[", "r", "]", "r", ";">>,
      <<"1", "[", "2", "[", "3", "[">>,
      <<"1", "[", "]", "1", "[", "]", "2", "[", "]", ";">> }

\* pointer: `20.;`  `<;.01`  `v\n0\n3\n.\n;`  `^\n;\n.\n2\n0`  `99.;`
\* `01-0.;`  `01-:.`  `1.`  `1!2;`  `0?1;`  `1?2;`  `?`  `1!`  `v\n!\n1\n;`
\* `<!1`  `^\n!\n1`  `<?1`  `<?0`  `v\n0\n?\n1\n;`
ScriptsPointer ==
    { <<"2", "0", ".", ";">>,
      <<"<", ";", ".", "0", "1">>,
      <<"v", "\n", "0", "\n", "3", "\n", ".", "\n", ";">>,
      <<"^", "\n", ";", "\n", ".", "\n", "2", "\n", "0">>,
      <<"9", "9", ".", ";">>,
      <<"0", "1", "-", "0", ".", ";">>,
      <<"0", "1", "-", ":", ".">>,
      <<"1", ".">>,
      <<"1", "!", "2", ";">>,
      <<"0", "?", "1", ";">>,
      <<"1", "?", "2", ";">>,
      <<"?">>,
      <<"1", "!">>,
      <<"v", "\n", "!", "\n", "1", "\n", ";">>,
      <<"<", "!", "1">>,
      <<"^", "\n", "!", "\n", "1">>,
      <<"<", "?", "1">>,
      <<"<", "?", "0">>,
      <<"v", "\n", "0", "\n", "?", "\n", "1", "\n", ";">> }

\* directions: `\\;`  `/;`  `|;`  `_;`  `#;`  `x;`  `v;`  `^\n;`  `<;`  `>;`
\* `v\n_\n;`  `v\n#`  `v\n/;`  `^;\n\\ `
ScriptsDirections ==
    { <<"\\", ";">>,
      <<"/", ";">>,
      <<"|", ";">>,
      <<"_", ";">>,
      <<"#", ";">>,
      <<"x", ";">>,
      <<"v", ";">>,
      <<"^", "\n", ";">>,
      <<"<", ";">>,
      <<">", ";">>,
      <<"v", "\n", "_", "\n", ";">>,
      <<"v", "\n", "#">>,
      <<"v", "\n", "/", ";">>,
      <<"^", ";", "\n", "\\", " ">> }

\* string mode: `"1;"~~;`  `'"';`  `"z`  `";`  `'a"'o;`
ScriptsStringMode ==
    { <<"\"", "1", ";", "\"", "~", "~", ";">>,
      <<"'", "\"", "'", ";">>,
      <<"\"", "z">>,
      <<"\"", ";">>,
      <<"'", "a", "\"", "'", "o", ";">> }

\* grid access: `00g;`  `77g`  `07g`  `e4*6+00p;`  `a10p;`  `500p`  `0p`  `<
\* p01'>'`
ScriptsGridAccess ==
    { <<"0", "0", "g", ";">>,
      <<"7", "7", "g">>,
      <<"0", "7", "g">>,
      <<"e", "4", "*", "6", "+", "0", "0", "p", ";">>,
      <<"a", "1", "0", "p", ";">>,
      <<"5", "0", "0", "p">>,
      <<"0", "p">>,
      <<"<", " ", "p", "0", "1", "'", ">", "'">> }

\* input and output: `i;`  `ii;`  `io;`  `5n;`  `n`  `12,n;`  `1n2n3n4n;`
\* `o`
ScriptsInputOutput ==
    { <<"i", ";">>,
      <<"i", "i", ";">>,
      <<"i", "o", ";">>,
      <<"5", "n", ";">>,
      <<"n">>,
      <<"1", "2", ",", "n", ";">>,
      <<"1", "n", "2", "n", "3", "n", "4", "n", ";">>,
      <<"o">> }

\* input polling: `iii;`  ` i~`
ScriptsInputPolling ==
    { <<"i", "i", "i", ";">>,
      <<" ", "i", "~">> }

\* loading: (empty)  `\n`  `\r\n`  `\r`  ` `  `\n\n`  ` \n`  `\r\n\r\n`
\* `1\r\n;`  `ab\nc`  `  `
ScriptsLoading ==
    { <<>>,
      <<"\n">>,
      <<"\r", "\n">>,
      <<"\r">>,
      <<" ">>,
      <<"\n", "\n">>,
      <<" ", "\n">>,
      <<"\r", "\n", "\r", "\n">>,
      <<"1", "\r", "\n", ";">>,
      <<"a", "b", "\n", "c">>,
      <<" ", " ">> }

\* termination and faults: `;`  ` ;`  `1;`  `z`  `h;`
ScriptsTerminationFaults ==
    { <<";">>,
      <<" ", ";">>,
      <<"1", ";">>,
      <<"z">>,
      <<"h", ";">> }

Scripts ==
    ScriptsStackInstructions \cup
    ScriptsArithmeticComparison \cup
    ScriptsStackStacks \cup
    ScriptsPointer \cup
    ScriptsDirections \cup
    ScriptsStringMode \cup
    ScriptsGridAccess \cup
    ScriptsInputOutput \cup
    ScriptsLoading \cup
    ScriptsTerminationFaults

Stacks0 == { <<>>, <<Num(1), Num(2)>>, <<Frac(7, 2), Num(-3), Num(4)>> }

\* standard input: the bytes 65, 66, ... in this order
Inputs == {[i \in 1..n |-> 64 + i] : n \in 0..MaxInput}

\* enough input to fill the channel and keep the reader waiting
InputsIO == {[i \in 1..n |-> 64 + i] : n \in 0..(MaxQueue + MaxInput)}

ChanCap == 1024

\* the capacity of the channel in the runs explored
QueueCap == IF ChanCap < MaxQueue THEN ChanCap ELSE MaxQueue
BufSize == 1024

\* the two latest cycles, the latest first
Latest(q) == IF Len(q) <= 2 THEN q ELSE SubSeq(q, 1, 2)

\* ------------------------------------------------------------ actions
InitWith(in) ==
    /\ script = <<>>
    /\ stack0 = <<>>
    /\ cB = ZeroCodeBox
    /\ heap = <<>>
    /\ stdout = <<>>
    /\ stdin \in in
    /\ rbuf = <<>>
    /\ reader = <<>>
    /\ status = "init"
    /\ hist = <<>>

Init == InitWith(Inputs)

InitIO == InitWith(InputsIO)

\* the caller builds the CodeBox from a script, a stack and the mode
LoadFrom(S) ==
    /\ status = "init"
    /\ \E s \in S, st \in Stacks0, c \in BOOLEAN, slack \in 0..GrowSlack :
         /\ script' = s
         /\ stack0' = st
         /\ IF Rejects(s)
            THEN /\ status' = "loadpanic"
                 /\ UNCHANGED <<cB, heap>>
            ELSE /\ status' = "running"
                 /\ cB' = NewCodeBox(s, st, c)
                 /\ heap' = <<st \o Zeros(slack)>>
    /\ UNCHANGED <<stdout, stdin, rbuf, reader, hist>>

Load == LoadFrom(Scripts)

LoadIO == LoadFrom(ScriptsInputPolling)

\* the caller calls Swim until it returns true
Running == status = "running"

\* the choices a cycle on byte r leaves open: the direction x draws, the
\* spare capacity a growing append leaves, the order of g's and p's checks
Rnd(r) == IF r = Byte("x") THEN {Right, Down, Left, Up} ELSE {Right}
Early(r) == IF r \in {Byte("g"), Byte("p")} THEN BOOLEAN ELSE {FALSE}

Swim ==
    /\ Running
    /\ \E rnd \in Rnd(Cell(cB)), slack \in 0..GrowSlack, early \in Early(Cell(cB)) :
         \E m1 \in {SwimBody(Machine(rnd, slack, early))} :
           \E m2 \in {Collected(IF m1.panicked THEN Recovered(m1) ELSE m1)} :
             /\ Bounded(m1)
             /\ cB' = [f \in CBFields |-> m2[f]]
             /\ heap' = m2.heap
             /\ stdout' = m2.out
             /\ reader' = m2.reader
             /\ status' = IF m1.panicked THEN (IF m2.exit = 1 THEN "exit1" ELSE "crash")
                          ELSE IF m1.ret THEN "done" ELSE "running"
             /\ hist' = Latest(<< [r |-> Cell(cB),
                                   lit |-> (cB.stringMode # 0 /\ Cell(cB) # cB.stringMode),
                                   pre |-> View(cB, heap),
                                   chan |-> reader,
                                   chanAfter |-> m2.reader,
                                   fault |-> m1.panicked,
                                   ret |-> m1.ret] >> \o hist)
    /\ UNCHANGED <<script, stack0, stdin, rbuf>>

\* the goroutine started by init(): os.Stdin.Read, then one send per byte
ReaderRead ==
    /\ status \in {"init", "running"}
    /\ rbuf = <<>>
    /\ \E n \in 1..BufSize :
         /\ n <= Len(stdin)
         /\ rbuf' = SubSeq(stdin, 1, n)
         /\ stdin' = SubSeq(stdin, n + 1, Len(stdin))
    /\ UNCHANGED <<script, stack0, cB, heap, stdout, reader, status, hist>>

ReaderSend ==
    /\ status \in {"init", "running"}
    /\ rbuf # <<>>
    /\ Len(reader) < QueueCap
    /\ reader' = Append(reader, Head(rbuf))
    /\ rbuf' = Tail(rbuf)
    /\ UNCHANGED <<script, stack0, cB, heap, stdout, stdin, status, hist>>

Next == Load \/ Swim \/ ReaderRead \/ ReaderSend

Spec == Init /\ [][Next]_vars

\* the runs of the programs that read input, on longer inputs
NextIO == LoadIO \/ Swim \/ ReaderRead \/ ReaderSend

SpecIO == InitIO /\ [][NextIO]_vars

\* ================================================================ claims
\* The properties below speak of the cycle just executed (hist[1]), of the
\* one before it (hist[2]) and of the state now.

Now == View(cB, heap)

\* the active stack of a view, bottom to top
Active(v) == v.stacks[v.p + 1].S

Loaded == status \in {"running", "done", "exit1", "crash"}

\* the latest cycle dispatched the instruction c
Ran(c) == Len(hist) >= 1 /\ hist[1].r = Byte(c) /\ ~hist[1].lit

\* the cycle before the latest dispatched the instruction c
RanBefore(c) == Len(hist) >= 2 /\ hist[2].r = Byte(c) /\ ~hist[2].lit

Front(q, n) == SubSeq(q, 1, n)
Back(q, n) == SubSeq(q, Len(q) - n + 1, Len(q))

IsCount(v) == v[2] = 1 /\ v[1] >= 0

\* ---------------------------------------------------------------- C1
\* C1 as stated: on an active stack [..., a, b, c] of three or more
\* elements, "@" leaves [..., b, c, a] and nothing below the top three changes.
C1_RotateAsStated ==
    (Ran("@") /\ Len(Active(hist[1].pre)) >= 3) =>
        LET s == Active(hist[1].pre)
            n == Len(s)
        IN  Active(Now) = Front(s, n - 3) \o <<s[n - 1], s[n], s[n - 2]>>

\* C1 amended: on an active stack [..., a, b, c] of three or more elements,
\* "@" leaves [..., c, a, b] (so [1,2,3,4] becomes [1,4,2,3]), does not
\* fault, and nothing below the top three changes.
C1_Rotate ==
    (Ran("@") /\ Len(Active(hist[1].pre)) >= 3) =>
        LET s == Active(hist[1].pre)
            n == Len(s)
        IN  /\ ~hist[1].fault
            /\ Now.p = hist[1].pre.p
            /\ Active(Now) = Front(s, n - 3) \o <<s[n], s[n - 2], s[n - 1]>>

C1_Witness ==
    /\ Ran("@")
    /\ Active(hist[1].pre) = <<Num(1), Num(2), Num(3), Num(4)>>
    /\ Active(Now) = <<Num(1), Num(4), Num(2), Num(3)>>

\* ---------------------------------------------------------------- C2
\* the two latest cycles were "[" and then "]", neither faulted, and "["
\* found a count n on top of a stack with at least n elements under it
OpenedAndClosed ==
    /\ Ran("]") /\ RanBefore("[")
    /\ ~hist[1].fault /\ ~hist[2].fault
    /\ Len(Active(hist[2].pre)) >= 1
    /\ LET s == Active(hist[2].pre)
       IN  IsCount(s[Len(s)]) /\ s[Len(s)][1] <= Len(s) - 1

\* the stack "[" found, without the count n on its top
Before == Front(Active(hist[2].pre), Len(Active(hist[2].pre)) - 1)

Count == Active(hist[2].pre)[Len(Active(hist[2].pre))][1]

\* C2: outside compatibility mode, n pushed, "[" and then "]" leave the
\* active stack index and the active stack's contents as they were before
\* n was pushed, also when the slot above was opened and closed before.
C2_OpenCloseRestores ==
    (OpenedAndClosed /\ ~cB.compMode) =>
        /\ Now.p = hist[2].pre.p
        /\ Active(Now) = Before

JumpY == Trunc(Active(hist[1].pre)[Len(Active(hist[1].pre))])
JumpX == Trunc(Active(hist[1].pre)[Len(Active(hist[1].pre)) - 1])

Jumped == Ran(".") /\ Len(Active(hist[1].pre)) >= 2

\* C4 as stated: after a "." cycle the pointer is exactly (x, y), no move
\* being applied in that cycle.
C4_JumpAsStated ==
    Jumped => (cB.fX = JumpX /\ cB.fY = JumpY)

\* C4 amended: after a "." cycle the pointer is (x, y) advanced by the
\* normal one-cell move in the facing direction: facing Right x + 1 (0 when
\* that reaches the width), facing Left x - 1 (width - 1 when that is below
\* 0), likewise for y, height, Down and Up; the direction is unchanged.
C4_JumpThenMove ==
    Jumped =>
        LET d == hist[1].pre.fDir
        IN  /\ ~hist[1].fault
            /\ cB.fDir = d
            /\ cB.fX = (IF d = Right THEN (IF JumpX + 1 >= cB.width THEN 0 ELSE JumpX + 1)
                        ELSE IF d = Left THEN (IF JumpX - 1 < 0 THEN cB.width - 1 ELSE JumpX - 1)
                        ELSE JumpX)
            /\ cB.fY = (IF d = Down THEN (IF JumpY + 1 >= cB.height THEN 0 ELSE JumpY + 1)
                        ELSE IF d = Up THEN (IF JumpY - 1 < 0 THEN cB.height - 1 ELSE JumpY - 1)
                        ELSE JumpY)

C4_Witness ==
    /\ Jumped
    /\ hist[1].pre.fDir = Up
    /\ JumpY = 2 /\ JumpX = 0
    /\ cB.fY = 1 /\ cB.fX = 0

\* ---------------------------------------------------------------- C5
\* C5: whenever a cycle is about to start on a grid with at least one cell,
\* the pointer is in the grid, 0 <= x < width and 0 <= y < height, so the
\* cell the cycle reads exists.
C5_PointerInGrid ==
    (Running /\ cB.width > 0 /\ cB.height > 0) =>
        /\ 0 <= cB.fX /\ cB.fX < cB.width
        /\ 0 <= cB.fY /\ cB.fY < cB.height

\* ---------------------------------------------------------------- C6
\* C6: in every state of a run, the state in which a fault of "[" or "]" is
\* reported included, 0 <= activeIndex < len(stacks).
C6_ActiveIndexInRange ==
    Loaded => (0 <= cB.p /\ cB.p < Len(cB.stacks))

\* ---------------------------------------------------------------- C7
Faulted == status \in {"exit1", "crash"}

\* C7: after a runtime fault the run has emitted the rendering of the grid,
\* then the dump of the active stack, and has ended with a non-zero status
\* (no cycle follows: Swim requires a running status).
C7_FaultDiagnostics ==
    Faulted =>
        \E i \in 1..Len(stdout) :
            /\ stdout[i].k = "box"
            /\ i < Len(stdout)
            /\ stdout[i + 1].k = "Stack:"

\* ---------------------------------------------------------------- C8
Blank(s) == \A i \in 1..Len(s) : s[i] \in {" ", "\r", "\n"}

\* C8 as stated: a program text that is empty or only spaces, carriage
\* returns and newlines is rejected at load time, and no cycle is executed.
C8_BlankAsStated ==
    (status # "init" /\ Blank(script)) =>
        (status = "loadpanic" /\ hist = <<>>)

\* C8 amended: a program text that, carriage returns aside, is empty or a
\* single newline is rejected at load time, and no cycle is executed.
C8_EmptyRejected ==
    (/\ status # "init"
     /\ \A i \in 1..Len(script) : script[i] \in {"\r", "\n"}
     /\ Cardinality({i \in 1..Len(script) : script[i] = "\n"}) <= 1) =>
        (status = "loadpanic" /\ hist = <<>> /\ cB = ZeroCodeBox)

C8_Witness ==
    status = "loadpanic" /\ script = <<"\r", "\n">>

\* ---------------------------------------------------------------- C9
\* C9: a cycle that dispatches ";" reports termination and leaves pointer,
\* direction, string delimiter, grid, active index and every stack and
\* register as they were before the cycle.
C9_EndChangesNothing ==
    Ran(";") =>
        /\ hist[1].ret
        /\ status = "done"
        /\ Now = hist[1].pre

C9_Witness ==
    /\ Ran(";")
    /\ status = "done"
    /\ cB.fX > 0
    /\ Len(cB.stacks) > 1
    /\ Len(Active(Now)) > 0

\* ---------------------------------------------------------------- C10
\* the operands of the latest cycle: a popped first, b popped second
OpA == Active(hist[1].pre)[Len(Active(hist[1].pre))]
OpB == Active(hist[1].pre)[Len(Active(hist[1].pre)) - 1]
Below == Front(Active(hist[1].pre), Len(Active(hist[1].pre)) - 2)

\* r is the remainder of the truncating division of b by a (a # 0)
IsRemainder(r, b, a) ==
    /\ Abs(r) < Abs(a)
    /\ \E q \in (-Abs(b))..Abs(b) : b = q * a + r
    /\ (r = 0 \/ (r > 0) = (b > 0))

Pre1 == Active(hist[1].pre)
Pre2 == Active(hist[2].pre)

\* C11: on a non-empty active stack "}" moves the top element to index 0
\* and "{" moves the element at index 0 to the top, the others keeping
\* their order; "}" then "{", and "{" then "}", leave the stack as it was.
C11_Shifts ==
    /\ (Ran("}") /\ Len(Pre1) >= 1) =>
          /\ ~hist[1].fault
          /\ Now.p = hist[1].pre.p
          /\ Active(Now) = <<Pre1[Len(Pre1)]>> \o Front(Pre1, Len(Pre1) - 1)
    /\ (Ran("{") /\ Len(Pre1) >= 1) =>
          /\ ~hist[1].fault
          /\ Now.p = hist[1].pre.p
          /\ Active(Now) = Tail(Pre1) \o <<Head(Pre1)>>
    /\ (/\ \/ Ran("{") /\ RanBefore("}")
           \/ Ran("}") /\ RanBefore("{")
        /\ Len(Pre2) >= 1) =>
          /\ ~hist[1].fault /\ ~hist[2].fault
          /\ Now.p = hist[2].pre.p
          /\ Active(Now) = Pre2

C11_Witness ==
    /\ Ran("{") /\ RanBefore("}")
    /\ Len(Pre2) >= 3
    /\ Pre2[1] # Pre2[Len(Pre2)]
    /\ Pre1 = <<Pre2[Len(Pre2)]>> \o Front(Pre2, Len(Pre2) - 1)
    /\ Active(Now) = Pre2

\* ---------------------------------------------------------------- C12
\* the active stack of a view, with its register
Top(v) == v.stacks[v.p + 1]

\* C12: "&" on a non-empty active stack whose register is empty leaves the
\* register holding the former top and the stack one element shorter; a
\* second "&" restores the stack exactly and leaves the register empty.
C12_RegisterRoundTrip ==
    /\ (Ran("&") /\ ~Top(hist[1].pre).filledRegister /\ Len(Pre1) >= 1) =>
          /\ ~hist[1].fault
          /\ Now.p = hist[1].pre.p
          /\ Top(Now).filledRegister
          /\ Top(Now).register = Pre1[Len(Pre1)]
          /\ Active(Now) = Front(Pre1, Len(Pre1) - 1)
    /\ (/\ Ran("&") /\ RanBefore("&")
        /\ ~Top(hist[2].pre).filledRegister /\ Len(Pre2) >= 1) =>
          /\ ~hist[1].fault /\ ~hist[2].fault
          /\ Now.p = hist[2].pre.p
          /\ ~Top(Now).filledRegister
          /\ Active(Now) = Pre2

C12_Witness ==
    /\ Ran("&") /\ RanBefore("&")
    /\ ~Top(hist[2].pre).filledRegister
    /\ Len(Pre2) >= 2
    /\ Top(hist[1].pre).filledRegister
    /\ Top(hist[1].pre).register = Pre2[Len(Pre2)]
    /\ Len(Pre1) = Len(Pre2) - 1
    /\ ~Top(Now).filledRegister
    /\ Active(Now) = Pre2

\* ---------------------------------------------------------------- C13
\* the operands of "p" in cycle i of the history: y on top, x under it, v third
PutY(i) == Trunc(Active(hist[i].pre)[Len(Active(hist[i].pre))])
PutX(i) == Trunc(Active(hist[i].pre)[Len(Active(hist[i].pre)) - 1])
PutV(i) == Trunc(Active(hist[i].pre)[Len(Active(hist[i].pre)) - 2])

\* the grid after cycle i of the history
BoxAfter(i) == IF i = 1 THEN Now.box ELSE hist[i - 1].pre.box

\* cycle i was a "p" that completed, with a value that fits a byte
Put(i) ==
    /\ Len(hist) >= i /\ hist[i].r = Byte("p") /\ ~hist[i].lit
    /\ ~hist[i].fault
    /\ PutV(i) >= 0 /\ PutV(i) <= 255

\* C13: a cycle that does not dispatch "p" leaves every grid cell as it was;
\* "p" pops y, then x, then v and changes exactly the cell in row y, column
\* x to v; a cycle whose pointer is on a cell holds the byte now in it, so a
\* written ">" sets the direction to Right when the pointer next visits it.
C13_OnlyPutWrites ==
    /\ (Len(hist) >= 1 /\ ~Ran("p")) => Now.box = hist[1].pre.box
    /\ (Ran("p") /\ hist[1].fault) => Now.box = hist[1].pre.box
    /\ (/\ Ran("p") /\ Len(Pre1) >= 3
        /\ PutY(1) + 1 \in DOMAIN hist[1].pre.box
        /\ PutX(1) + 1 \in DOMAIN hist[1].pre.box[PutY(1) + 1]) => ~hist[1].fault
    /\ \A i \in 1..2 : Put(i) =>
          /\ Len(Active(hist[i].pre)) >= 3
          /\ PutY(i) + 1 \in DOMAIN hist[i].pre.box
          /\ PutX(i) + 1 \in DOMAIN hist[i].pre.box[PutY(i) + 1]
          /\ BoxAfter(i) = [hist[i].pre.box EXCEPT ![PutY(i) + 1][PutX(i) + 1] = PutV(i)]
    /\ (/\ Put(2) /\ ~hist[1].lit
        /\ hist[1].pre.fX = PutX(2) /\ hist[1].pre.fY = PutY(2)) =>
          /\ hist[1].r = PutV(2)
          /\ (PutV(2) = Byte(">") => Now.fDir = Right /\ ~hist[1].fault)

C13_Witness ==
    /\ Put(2)
    /\ hist[2].pre.box[PutY(2) + 1][PutX(2) + 1] # Byte(">")
    /\ PutX(2) # PutY(2)
    /\ hist[1].pre.fX = PutX(2) /\ hist[1].pre.fY = PutY(2)
    /\ hist[1].pre.fDir = Left
    /\ Ran(">")
    /\ Now.fDir = Right

\* ---------------------------------------------------------------- C14
\* the operand of "[" in the latest cycle and the stack left under it
OpenCount == Trunc(Pre1[Len(Pre1)])
OpenRest == Front(Pre1, Len(Pre1) - 1)

\* C14: "[" with a popped n between 0 and the remaining length moves the
\* top n elements: the former active stack is left n shorter, the new active
\* stack holds those n elements (in the same order outside compatibility
\* mode, reversed in it) and the active index is one higher, whether the
\* slot above is fresh or was used before.
C14_OpenMoves ==
    (/\ Ran("[") /\ Len(Pre1) >= 1
     /\ OpenCount >= 0 /\ OpenCount <= Len(OpenRest)) =>
        /\ ~hist[1].fault
        /\ Now.p = hist[1].pre.p + 1
        /\ Now.stacks[hist[1].pre.p + 1].S = Front(OpenRest, Len(OpenRest) - OpenCount)
        /\ Active(Now) = IF cB.compMode THEN RevSeq(Back(OpenRest, OpenCount))
                         ELSE Back(OpenRest, OpenCount)

\* ---------------------------------------------------------------- C15
\* C15: a cycle that does not dispatch "]" leaves every stack below the
\* active one as it was: its contents, its register and whether the
\* register is filled.
C15_SuspendedUntouched ==
    (Len(hist) >= 1 /\ ~Ran("]")) =>
        \A j \in 1..hist[1].pre.p : Now.stacks[j] = hist[1].pre.stacks[j]

\* ---------------------------------------------------------------- C16
\* the cell one step from (x, y) of view v in direction d, wrapping at the edges
StepX(v, x, d) ==
    LET w == Len(v.box[1])
    IN  IF d = Right THEN (x + 1) % w ELSE IF d = Left THEN (x + w - 1) % w ELSE x
StepY(v, y, d) ==
    LET h == Len(v.box)
    IN  IF d = Down THEN (y + 1) % h ELSE IF d = Up THEN (y + h - 1) % h ELSE y

\* C16: in string mode with delimiter d, a cycle on a byte other than d
\* pushes that byte's value on the active stack, neither ends the run nor
\* faults, leaves direction, grid, delimiter, registers and the other stacks
\* as they were and advances the pointer one cell; string mode is left only
\* by a cycle on d itself.
C16_StringLiteral ==
    /\ (Len(hist) >= 1 /\ hist[1].pre.stringMode # 0
        /\ hist[1].r # hist[1].pre.stringMode) =>
          /\ hist[1].lit
          /\ ~hist[1].fault /\ ~hist[1].ret /\ status = "running"
          /\ Now.p = hist[1].pre.p
          /\ Active(Now) = Pre1 \o <<Num(hist[1].r)>>
          /\ Now.fDir = hist[1].pre.fDir
          /\ Now.box = hist[1].pre.box
          /\ Now.stringMode = hist[1].pre.stringMode
          /\ Now.fX = StepX(Now, hist[1].pre.fX, Now.fDir)
          /\ Now.fY = StepY(Now, hist[1].pre.fY, Now.fDir)
    /\ (Len(hist) >= 1 /\ hist[1].pre.stringMode # 0
        /\ Now.stringMode # hist[1].pre.stringMode) =>
          /\ hist[1].r = hist[1].pre.stringMode
          /\ Now.stringMode = 0

C16_Witness ==
    /\ Len(hist) >= 2
    /\ hist[2].lit /\ hist[2].r = Byte("1")
    /\ hist[1].lit /\ hist[1].r = Byte(";")
    /\ hist[1].pre.stringMode = Byte("\"")
    /\ Active(Now) = Pre2 \o <<Num(Byte("1")), Num(Byte(";"))>>
    /\ Now.stringMode = Byte("\"")
    /\ Now.fX = hist[1].pre.fX + 1
    /\ status = "running"

\* ---------------------------------------------------------------- C17
\* the pointer is n cells ahead of where the latest cycle began, in the
\* direction faced, each step wrapping at the edges
Ahead(n) ==
    LET d == hist[1].pre.fDir
        RECURSIVE X(_)
        X(i) == IF i = 0 THEN hist[1].pre.fX ELSE StepX(Now, X(i - 1), d)
        RECURSIVE Y(_)
        Y(i) == IF i = 0 THEN hist[1].pre.fY ELSE StepY(Now, Y(i - 1), d)
    IN  Now.fDir = d /\ Now.fX = X(n) /\ Now.fY = Y(n)

\* C17: a cycle on "!" and a cycle on "?" that pops zero leave the pointer
\* two cells ahead in the direction faced, each step wrapping toroidally; a
\* cycle on "?" that pops a non-zero value leaves it one cell ahead; "?"
\* pops exactly one value either way and "!" pops none.
C17_Skips ==
    /\ Ran("!") =>
          /\ ~hist[1].fault
          /\ Ahead(2)
          /\ Now.stacks = hist[1].pre.stacks
    /\ (Ran("?") /\ Len(Pre1) >= 1) =>
          /\ ~hist[1].fault
          /\ Now.p = hist[1].pre.p
          /\ Active(Now) = Front(Pre1, Len(Pre1) - 1)
          /\ IF Pre1[Len(Pre1)][1] = 0 THEN Ahead(2) ELSE Ahead(1)

C17_Witness ==
    /\ Ran("?")
    /\ Len(Pre1) >= 2
    /\ Pre1[Len(Pre1)] = Num(0)
    /\ hist[1].pre.fDir = Left /\ hist[1].pre.fX = 1
    /\ Len(Now.box[1]) = 3
    /\ Now.fX = 2
    /\ Active(Now) = Front(Pre1, Len(Pre1) - 1)

\* ---------------------------------------------------------------- C18
\* the value on top of the active stack
TopValue == Active(Now)[Len(Active(Now))]

\* the interpreter is about to dispatch "i" and the result fits the bounds
AtInput ==
    /\ Running
    /\ cB.stringMode = 0
    /\ Cell(cB) = Byte("i")
    /\ TotalLen(cB) < MaxLen

NeedOne == {Byte(":"), Byte("{"), Byte("}"), Byte("~"), Byte("o"), Byte("n"), Byte("?")}
NeedTwo == {Byte("$"), Byte("+"), Byte("-"), Byte("*"), Byte(","), Byte("%"),
            Byte("="), Byte(")"), Byte("(")}
NeedThree == {Byte("@")}

\* the latest cycle dispatched a stack instruction on too few elements
TooFew ==
    /\ Len(hist) >= 1 /\ ~hist[1].lit
    /\ \/ hist[1].r \in NeedOne /\ Len(Pre1) < 1
       \/ hist[1].r = Byte("&") /\ Len(Pre1) < 1 /\ ~Top(hist[1].pre).filledRegister
       \/ hist[1].r \in NeedTwo /\ Len(Pre1) < 2
       \/ hist[1].r \in NeedThree /\ Len(Pre1) < 3

\* C19: a stack instruction dispatched on an active stack with too few
\* elements faults, and the run halts with the diagnostics and exit status 1:
\* ":", "{", "}", "~", "o", "n", "?" on an empty stack, "&" on an empty stack
\* with an empty register, "$" and the binary operators on fewer than two
\* elements, "@" on fewer than three.
C19_TooFewFaults ==
    TooFew =>
        /\ hist[1].fault
        /\ ~hist[1].ret
        /\ status = "exit1"
        /\ ~ENABLED Swim

C19_Witness ==
    /\ TooFew
    /\ hist[1].r = Byte("$") /\ Len(Pre1) = 1
    /\ hist[1].fault
    /\ status = "exit1"

\* ---------------------------------------------------------------- C20
\* C20: a cycle that faults leaves the active index and every stack, with
\* its register, as they were when the cycle began, and the stack dumped by
\* the diagnostics is the active stack the faulting instruction was applied to.
C20_FaultKeepsStacks ==
    (Len(hist) >= 1 /\ hist[1].fault) =>
        /\ Now.p = hist[1].pre.p
        /\ Now.stacks = hist[1].pre.stacks
        /\ \E i \in 1..Len(stdout) : stdout[i].k = "Stack:" /\ stdout[i].v = Pre1

====
